---------------------------- MODULE Spec2Model ----------------------------
(***************************************************************************)
(* Model of the PhotoWork update queue of the photo controller             *)
(* (updatePhotoWork and the pendingUpdates registry).                      *)
(*                                                                         *)
(* A PhotoWork is a JavaScript object: a function from the field names    *)
(* that are present to their values.  `delete w.f` removes f from the      *)
(* domain, `w.f = v` adds or overwrites it.                                *)
(***************************************************************************)
EXTENDS Integers, Sequences, FiniteSets, TLC

VARIABLES
    pendingUpdates,  \* photo path -> index of the registered PendingUpdate, 0 = no entry
    cycles,          \* every PendingUpdate ever created, with its promise chain's progress
    persisted,       \* photo path -> PhotoWork held by the backing store (ansel.json)
    uiPhotoWork,     \* photo path -> PhotoWork last dispatched with changePhotoWorkAction
    submitted,       \* photo path -> every update passed to updatePhotoWork, in call order
    persisted0       \* the PhotoWork persisted before the first call (never changes)

\* The photos table, the photo records the UI shows, and the controller's
\* flag and trash operations.
VARIABLES
    flagColumn,      \* photo -> the flag column of the photos table
    trashedColumn,   \* photo -> the trashed column of the photos table
    uiPhotos,        \* photo -> the photo record the store holds: [flag, trashed]
    ops,             \* every toggleFlag, setPhotosFlagged, movePhotosToTrash call
    changePhotos     \* every changePhotosAction dispatched, in order

\* The directory walker: the file system it reads, its arguments, its result.
VARIABLES
    fsKind,          \* path -> "dir", "file" or "absent"
    blacklist,       \* the excluded paths
    walkRoot,        \* the root the walker is called on
    walked           \* the value the call returned (resolved to), once it ran

\* The UI store's reducers.
VARIABLES
    sections,        \* the state of the sections reducer
    sectionsAction,  \* the action the sections reducer folded last
    detail,          \* the state of the detail reducer
    detailAction,    \* the action the detail reducer folded last
    detailError      \* whether the detail reducer threw on that action

\* The photo fetches of the library view.
VARIABLES
    fetches,         \* every internalFetchPhotos call, with the state of its queries
    fetchLog         \* every fetchPhotosAction dispatched, in order

queueVars == <<pendingUpdates, cycles, persisted, uiPhotoWork, submitted, persisted0>>

ctrlVars == <<flagColumn, trashedColumn, uiPhotos, ops, changePhotos>>

walkerVars == <<fsKind, blacklist, walkRoot, walked>>

sectionsVars == <<sections, sectionsAction>>

detailVars == <<detail, detailAction, detailError>>

reducerVars == <<sectionsVars, detailVars>>

fetchVars == <<fetches, fetchLog>>

libVars == <<walkerVars, reducerVars, fetchVars>>

appVars == <<ctrlVars, libVars>>

vars == <<queueVars, appVars>>

----------------------------------------------------------------------------
(* Bounds and input sets *)

\* Total number of updatePhotoWork calls in a behaviour.
MaxUpdates == 3

\* photo.master of the photos; photo.id is in one-to-one correspondence.
Paths == {"a.jpg", "b.jpg"}

\* The update functions callers pass: the two of storeFlagged and three
\* edits of a field other than flagged.
Updates == {"flag", "unflag", "cropX", "cropY", "uncrop"}

\* null: no PhotoWork yet (nothing fetched, nothing dispatched).
NoWork == [null |-> "null"]

----------------------------------------------------------------------------
(* PhotoWork objects *)

EmptyWork == [f \in {} |-> "X"]

\* w.f = v
SetField(w, f, v) == [g \in (DOMAIN w) \cup {f} |-> IF g = f THEN v ELSE w[g]]

\* delete w.f
DeleteField(w, f) == [g \in (DOMAIN w) \ {f} |-> w[g]]

\* Every PhotoWork the model's updates can produce.
PhotoWorks ==
    UNION { { SetField(w, "flagged", "true"), w } :
            w \in { EmptyWork, SetField(EmptyWork, "crop", "X"),
                    SetField(EmptyWork, "crop", "Y") } }


\* up(photoWork): what each update function does to the PhotoWork it is given.
ApplyUpdate(up, w) ==
    CASE up = "flag"   -> SetField(w, "flagged", "true")
      [] up = "unflag" -> DeleteField(w, "flagged")
      [] up = "cropX"  -> SetField(w, "crop", "X")
      [] up = "cropY"  -> SetField(w, "crop", "Y")
      [] up = "uncrop" -> DeleteField(w, "crop")

\* Faulty variant: the queue is walked from its end, the last update first.
RECURSIVE ApplyUpdatesReversed(_, _)
ApplyUpdatesReversed(updates, w) ==
    IF updates = <<>> THEN w
    ELSE ApplyUpdatesReversed(SubSeq(updates, 1, Len(updates) - 1),
                              ApplyUpdate(updates[Len(updates)], w))

\* for (const up of pendingUpdate.updates) { up(photoWork) }
RECURSIVE ApplyUpdates(_, _)
ApplyUpdates(updates, w) ==
    IF updates = <<>> THEN w
    ELSE ApplyUpdates(Tail(updates), ApplyUpdate(Head(updates), w))

\* cloneDeep(photoWork): a copy that later changes of photoWork do not reach.
cloneDeep(w) == [f \in DOMAIN w |-> w[f]]

\* Faulty variant: only the keys are compared, not their values.
isKeyEqual(a, b) == DOMAIN a = DOMAIN b

\* isDeepEqual(a, b) on plain objects: the same keys with equal values.
isDeepEqual(a, b) ==
    /\ DOMAIN a = DOMAIN b
    /\ \A f \in DOMAIN a : a[f] = b[f]

\* Faulty variant: the copy keeps the flagged it was fetched with.
IgnoreFlaggedForgotten(photoWorkCopyBefore, photoWork) == photoWorkCopyBefore

\* "Ignore changes on flagged": photoWorkCopyBefore gets photoWork's flagged.
IgnoreFlagged(photoWorkCopyBefore, photoWork) ==
    IF "flagged" \in DOMAIN photoWork
    THEN SetField(photoWorkCopyBefore, "flagged", "true")
    ELSE DeleteField(photoWorkCopyBefore, "flagged")

thumbnailNeedsUpdate(photoWorkCopyBefore, photoWork) ==
    ~isDeepEqual(IgnoreFlagged(photoWorkCopyBefore, photoWork), photoWork)

\* Faulty variant: the PhotoWork is persisted before it is dispatched.
IssuedCallsStoreFirst(needsUpdate) ==
    <<"storePhotoWork", "dispatch">>
        \o (IF needsUpdate THEN <<"onThumnailChange">> ELSE <<>>)

\* The calls the then-handler issues after the updates, in program order.
IssuedCalls(needsUpdate) ==
    <<"dispatch", "storePhotoWork">>
        \o (IF needsUpdate THEN <<"onThumnailChange">> ELSE <<>>)

----------------------------------------------------------------------------
(* The registry *)

\* Faulty variant: one slot for all photos, whatever the path asked for.
LookupAnyPath(registry, photoPath) ==
    IF \E q \in DOMAIN registry : registry[q] # 0
    THEN registry[CHOOSE q \in DOMAIN registry : registry[q] # 0]
    ELSE 0

\* pendingUpdates[photoPath]
Lookup(registry, photoPath) == registry[photoPath]

\* pendingUpdates[photoPath] = pendingUpdate
Register(registry, photoPath, c) == [registry EXCEPT ![photoPath] = c]

\* delete pendingUpdates[photoPath]
Unregister(registry, photoPath) == [registry EXCEPT ![photoPath] = 0]

\* pendingUpdate = { photo, updates: [ update ] } with its fetch started
NewPendingUpdate(photoPath, update) ==
    [ photo   |-> photoPath,
      updates |-> <<update>>,
      fetch   |-> "pending",     \* fetchPhotoWork: pending, resolved, rejected
      fetched |-> NoWork,        \* the PhotoWork the fetch resolved with
      photoWork |-> NoWork,      \* the PhotoWork after the updates
      needsUpdate |-> FALSE,     \* thumbnailNeedsUpdate
      issued  |-> <<>>,          \* calls issued by the then-handler
      store   |-> "none",        \* storePhotoWork: none, pending, done, failed
      thumb   |-> "none",        \* onThumnailChange: none, pending, done, failed
      caught  |-> FALSE ]        \* the catch handler has run

\* pendingUpdate.updates.push(update)
PushUpdate(pendingUpdate, update) ==
    [pendingUpdate EXCEPT !.updates = Append(@, update)]

CycleIds == 1..Len(cycles)

NumCalls == Len(submitted["a.jpg"]) + Len(submitted["b.jpg"])

----------------------------------------------------------------------------
(* The collaborators (BackgroundClient, ImageProvider) *)

\* fetchPhotoWork(photoPath) resolves with the currently persisted PhotoWork.
fetchPhotoWork(photoPath) == persisted[photoPath]

\* storePhotoWork(photoPath, photoWork) overwrites the persisted PhotoWork.
storePhotoWork(photoPath, photoWork) ==
    [persisted EXCEPT ![photoPath] = photoWork]

----------------------------------------------------------------------------
(* Operations *)

\* The state before the first call, with the persisted PhotoWork of each photo
\* drawn from the given sets.
\* No controller operation has run; the flag column agrees with the flagged
\* marker of the persisted PhotoWork, nothing is trashed, the UI shows the table.
InitApp ==
    /\ flagColumn = [p \in Paths |-> "flagged" \in DOMAIN persisted[p]]
    /\ trashedColumn = [p \in Paths |-> FALSE]
    /\ uiPhotos = [p \in Paths |-> [flag |-> flagColumn[p], trashed |-> FALSE]]
    /\ ops = <<>>
    /\ changePhotos = <<>>

InitQueue(worksA, worksB) ==
    /\ pendingUpdates = [p \in Paths |-> 0]
    /\ cycles = <<>>
    /\ persisted \in { [p \in Paths |-> IF p = "a.jpg" THEN wa ELSE wb] :
                        wa \in worksA, wb \in worksB }
    /\ persisted0 = persisted
    /\ uiPhotoWork = [p \in Paths |-> NoWork]
    /\ submitted = [p \in Paths |-> <<>>]
    /\ InitApp

\* The values a JavaScript expression of the walker yields: false, a path, or
\* an array of paths.
JsFalse == [type |-> "boolean", list |-> <<>>]

JsString(path) == [type |-> "string", list |-> <<path>>]

JsArray(paths) == [type |-> "array", list |-> paths]

\* The walker has not been called.
NotWalked == [type |-> "undefined", list |-> <<>>]

\* The paths of the file system, and for each the entries readdir lists,
\* joined to it, in readdir's order.
FsPaths == {"/r", "/r/d", "/r/d/e", "/r/d/y", "/r/x"}

Entries(dirName) ==
    IF dirName = "/r" THEN <<"/r/d", "/r/x">>
    ELSE IF dirName = "/r/d" THEN <<"/r/d/e", "/r/d/y">>
    ELSE <<>>

\* No walk: an empty root directory, nothing excluded.
IdleWalker ==
    /\ fsKind = [n \in FsPaths |-> IF n = "/r" THEN "dir" ELSE "absent"]
    /\ blacklist = {}
    /\ walkRoot = "/r"
    /\ walked = NotWalked

\* FetchState
IDLE == "IDLE"

FETCHING == "FETCHING"

FAILURE == "FAILURE"

\* A count of the sections state: null, or a number.
Null == [null |-> TRUE, n |-> 0]

Num(n) == [null |-> FALSE, n |-> n]

\* The type and payload of the store's @@INIT action, as far as modelled.
NoAction == [type |-> "@@INIT"]

\* The object {}.
EmptyMap == [k \in {} |-> 0]

initialSectionsState ==
    [fetchState |-> IDLE, totalPhotoCount |-> Null, photoCount |-> 0,
     ids |-> <<>>, byId |-> EmptyMap]

\* A photoDetail or photoWork of the detail state that is null (while
\* loading) or was never set.
NullDetail == [is |-> "null", tags |-> <<>>]

UndefinedDetail == [is |-> "undefined", tags |-> <<>>]

UndefinedWork == [null |-> "undefined"]

\* The detail state null. The other fields are placeholders: isNull decides.
DetailNull ==
    [isNull |-> TRUE, showDiff |-> FALSE, hasCurrentPhoto |-> FALSE,
     currentPhoto |-> [hasIds |-> FALSE, fetchState |-> IDLE, sectionId |-> "",
                       photoIndex |-> 0, photoId |-> "",
                       photoDetail |-> UndefinedDetail, photoWork |-> UndefinedWork]]

\* The store after creation: every reducer holds its initial state.
InitReducers ==
    /\ sections = initialSectionsState
    /\ sectionsAction = NoAction
    /\ detail = DetailNull
    /\ detailAction = NoAction
    /\ detailError = FALSE

\* No fetch of photos has been started.
InitFetchPhotos ==
    /\ fetches = <<>>
    /\ fetchLog = <<>>

InitLib == IdleWalker /\ InitReducers /\ InitFetchPhotos

InitWith(worksA, worksB) == InitQueue(worksA, worksB) /\ InitLib

Flagged == SetField(EmptyWork, "flagged", "true")

\* updatePhotoWork(photo, update)
updatePhotoWork(photoPath, update) ==
    /\ NumCalls < MaxUpdates
    /\ submitted' = [submitted EXCEPT ![photoPath] = Append(@, update)]
    /\ IF Lookup(pendingUpdates, photoPath) # 0
       THEN /\ cycles' = [cycles EXCEPT ![Lookup(pendingUpdates, photoPath)] =
                              PushUpdate(@, update)]
            /\ UNCHANGED pendingUpdates
       ELSE /\ cycles' = Append(cycles, NewPendingUpdate(photoPath, update))
            /\ pendingUpdates' = Register(pendingUpdates, photoPath, Len(cycles) + 1)
    /\ UNCHANGED <<persisted, uiPhotoWork, persisted0>>

\* A call of updatePhotoWork from outside the controller (an edit in the UI).
callUpdatePhotoWork(photoPath, update) ==
    updatePhotoWork(photoPath, update) /\ UNCHANGED appVars

\* The state of a cycle after its then-handler ran on the fetched PhotoWork.
AfterThen(cycle, fetchedWork) ==
    LET photoWorkCopyBefore == cloneDeep(fetchedWork)
        photoWork == ApplyUpdates(cycle.updates, fetchedWork)
        needsUpdate == thumbnailNeedsUpdate(photoWorkCopyBefore, photoWork)
    IN  [cycle EXCEPT
            !.fetch = "resolved",
            !.fetched = fetchedWork,
            !.photoWork = photoWork,
            !.needsUpdate = needsUpdate,
            !.issued = IssuedCalls(needsUpdate),
            !.store = "pending",
            !.thumb = IF needsUpdate THEN "pending" ELSE "none"]

\* Faulty variant: the then-handler forgets `delete pendingUpdates[photoPath]`.
FetchResolvedKeepsEntry(c) ==
    /\ cycles[c].fetch = "pending"
    /\ cycles' = [cycles EXCEPT ![c] = AfterThen(@, fetchPhotoWork(@.photo))]
    /\ uiPhotoWork' = [uiPhotoWork EXCEPT ![cycles[c].photo] = cycles'[c].photoWork]
    /\ UNCHANGED <<pendingUpdates, persisted, submitted, persisted0>>
    /\ UNCHANGED appVars

\* fetchPhotoWork(photoPath) resolves: the .then(photoWork => ...) handler
FetchResolved(c) ==
    /\ cycles[c].fetch = "pending"
    /\ cycles' = [cycles EXCEPT ![c] = AfterThen(@, fetchPhotoWork(@.photo))]
    /\ pendingUpdates' = Unregister(pendingUpdates, cycles[c].photo)
    /\ uiPhotoWork' = [uiPhotoWork EXCEPT ![cycles[c].photo] = cycles'[c].photoWork]
    /\ UNCHANGED <<persisted, submitted, persisted0>>
    /\ UNCHANGED appVars

\* Faulty variant: the catch handler only logs and leaves the entry registered.
CatchHandlerOnlyLogs(registry, photoPath) == registry

\* .catch(error => { delete pendingUpdates[photoPath]; console.error(...) })
CatchHandler(registry, photoPath) == Unregister(registry, photoPath)

\* Faulty variant: .catch() is chained before .then(), so the then-handler
\* runs after a rejection too, on the empty value the catch handler returns.
FetchRejectedThenRuns(c) ==
    /\ cycles[c].fetch = "pending"
    /\ cycles' = [cycles EXCEPT ![c] =
                     [AfterThen(@, EmptyWork) EXCEPT !.fetch = "rejected",
                                                     !.caught = TRUE]]
    /\ pendingUpdates' = Unregister(pendingUpdates, cycles[c].photo)
    /\ uiPhotoWork' = [uiPhotoWork EXCEPT ![cycles[c].photo] = cycles'[c].photoWork]
    /\ UNCHANGED <<persisted, submitted, persisted0>>
    /\ UNCHANGED appVars

\* fetchPhotoWork(photoPath) rejects: the then-handler is skipped
FetchRejected(c) ==
    /\ cycles[c].fetch = "pending"
    /\ cycles' = [cycles EXCEPT ![c].fetch = "rejected", ![c].caught = TRUE]
    /\ pendingUpdates' = CatchHandler(pendingUpdates, cycles[c].photo)
    /\ UNCHANGED <<persisted, uiPhotoWork, submitted, persisted0>>
    /\ UNCHANGED appVars

\* A rejection of storePhotoWork or onThumnailChange rejects Promise.all, once.
RejectAll(c) ==
    IF cycles[c].caught
    THEN UNCHANGED pendingUpdates
    ELSE pendingUpdates' = CatchHandler(pendingUpdates, cycles[c].photo)

StorePhotoWorkDone(c) ==
    /\ cycles[c].store = "pending"
    /\ cycles' = [cycles EXCEPT ![c].store = "done"]
    /\ persisted' = storePhotoWork(cycles[c].photo, cycles[c].photoWork)
    /\ UNCHANGED <<pendingUpdates, uiPhotoWork, submitted, persisted0>>
    /\ UNCHANGED appVars

StorePhotoWorkFailed(c) ==
    /\ cycles[c].store = "pending"
    /\ cycles' = [cycles EXCEPT ![c].store = "failed", ![c].caught = TRUE]
    /\ RejectAll(c)
    /\ UNCHANGED <<persisted, uiPhotoWork, submitted, persisted0>>
    /\ UNCHANGED appVars

ThumbnailChangeDone(c) ==
    /\ cycles[c].thumb = "pending"
    /\ cycles' = [cycles EXCEPT ![c].thumb = "done"]
    /\ UNCHANGED <<pendingUpdates, persisted, uiPhotoWork, submitted, persisted0>>
    /\ UNCHANGED appVars

ThumbnailChangeFailed(c) ==
    /\ cycles[c].thumb = "pending"
    /\ cycles' = [cycles EXCEPT ![c].thumb = "failed", ![c].caught = TRUE]
    /\ RejectAll(c)
    /\ UNCHANGED <<persisted, uiPhotoWork, submitted, persisted0>>
    /\ UNCHANGED appVars

\* What the collaborators may do with the calls in flight.
Settle ==
    \/ \E c \in CycleIds : FetchResolved(c)
    \/ \E c \in CycleIds : FetchRejected(c)
    \/ \E c \in CycleIds : StorePhotoWorkDone(c)
    \/ \E c \in CycleIds : StorePhotoWorkFailed(c)
    \/ \E c \in CycleIds : ThumbnailChangeDone(c)
    \/ \E c \in CycleIds : ThumbnailChangeFailed(c)

(* The controller's flag and trash operations *)

\* The photo lists the UI passes to setPhotosFlagged and movePhotosToTrash.
PhotoLists == { <<"a.jpg">>, <<"a.jpg", "b.jpg">> }

OpIds == 1..Len(ops)

\* Operation op has not been called yet: a behaviour calls each once.
NotCalled(op) == \A o \in OpIds : ops[o].op # op

\* The photo record the UI passes: the one the store holds at the call.
PhotoOf(p) == [id |-> p, flag |-> uiPhotos[p].flag, trashed |-> uiPhotos[p].trashed]

\* The row of the photos table, as Photo.fetch(...).toJSON() returns it.
PhotoRow(p) == [id |-> p, flag |-> flagColumn[p], trashed |-> trashedColumn[p]]

\* store.dispatch(changePhotosAction(photos)): the store takes each record.
DispatchChangePhotos(o, photos) ==
    /\ changePhotos' = Append(changePhotos, [by |-> o, photos |-> photos])
    /\ uiPhotos' = [p \in Paths |->
                       IF \E i \in 1..Len(photos) : photos[i].id = p
                       THEN LET i == CHOOSE j \in 1..Len(photos) :
                                        /\ photos[j].id = p
                                        /\ \A k \in (j+1)..Len(photos) : photos[k].id # p
                            IN  [flag |-> photos[i].flag, trashed |-> photos[i].trashed]
                       ELSE uiPhotos[p]]

\* A faulty storeFlagged that sets the marker whatever the new flag is.
FlagUpdateAlwaysSets(newFlagged) == "flag"

\* The mutation storeFlagged builds: set flagged, or delete it.
FlagUpdate(newFlagged) == IF newFlagged THEN "flag" ELSE "unflag"

\* storeFlagged(photo, newFlagged)
storeFlagged(photoPath, newFlagged) ==
    updatePhotoWork(photoPath, FlagUpdate(newFlagged))

\* toggleFlag(photo): the call itself, up to the save it starts.
toggleFlag(p) ==
    /\ NotCalled("toggleFlag")
    /\ LET photo == PhotoOf(p)
           newFlagged == ~photo.flag
       IN  /\ storeFlagged(p, newFlagged)
           /\ ops' = Append(ops, [op |-> "toggleFlag", photos |-> <<photo>>,
                                  flag |-> newFlagged, pc |-> "save", idx |-> 1,
                                  stored |-> <<[photo |-> p,
                                                update |-> FlagUpdate(newFlagged)]>>])
    /\ UNCHANGED <<flagColumn, trashedColumn, uiPhotos, changePhotos>>
    /\ UNCHANGED libVars

\* The save of toggleFlag succeeds; the fetch of the row starts.
ToggleSaveDone(o) ==
    /\ ops[o].op = "toggleFlag" /\ ops[o].pc = "save"
    /\ flagColumn' = [flagColumn EXCEPT ![ops[o].photos[1].id] = ops[o].flag]
    /\ ops' = [ops EXCEPT ![o].pc = "fetch"]
    /\ UNCHANGED <<queueVars, trashedColumn, uiPhotos, changePhotos>>
    /\ UNCHANGED libVars

\* The fetch of the row succeeds; the row is dispatched.
ToggleFetchDone(o) ==
    /\ ops[o].op = "toggleFlag" /\ ops[o].pc = "fetch"
    /\ DispatchChangePhotos(o, <<PhotoRow(ops[o].photos[1].id)>>)
    /\ ops' = [ops EXCEPT ![o].pc = "done"]
    /\ UNCHANGED <<queueVars, flagColumn, trashedColumn>>
    /\ UNCHANGED libVars

\* The save or the fetch of toggleFlag fails: the chain has no catch.
ToggleFailed(o) ==
    /\ ops[o].op = "toggleFlag" /\ ops[o].pc \in {"save", "fetch"}
    /\ ops' = [ops EXCEPT ![o].pc = "failed"]
    /\ UNCHANGED <<queueVars, flagColumn, trashedColumn, uiPhotos, changePhotos>>
    /\ UNCHANGED libVars

\* setPhotosFlagged(photos, flag): Promise.each is set up.
setPhotosFlagged(photoList, flag) ==
    /\ NotCalled("setPhotosFlagged")
    /\ ops' = Append(ops, [op |-> "setPhotosFlagged",
                           photos |-> [i \in 1..Len(photoList) |-> PhotoOf(photoList[i])],
                           flag |-> flag, pc |-> "each", idx |-> 0, stored |-> <<>>])
    /\ UNCHANGED <<queueVars, flagColumn, trashedColumn, uiPhotos, changePhotos>>
    /\ UNCHANGED libVars

\* The iterator of setPhotosFlagged runs for the next photo.
FlagEach(o) ==
    /\ ops[o].op = "setPhotosFlagged" /\ ops[o].pc = "each"
    /\ ops[o].idx < Len(ops[o].photos)
    /\ LET p == ops[o].photos[ops[o].idx + 1].id
       IN  /\ storeFlagged(p, ops[o].flag)
           /\ ops' = [ops EXCEPT ![o].pc = "save", ![o].idx = @ + 1,
                                 ![o].stored = Append(@, [photo |-> p,
                                                update |-> FlagUpdate(ops[o].flag)])]
    /\ UNCHANGED <<flagColumn, trashedColumn, uiPhotos, changePhotos>>
    /\ UNCHANGED libVars

\* The save of the current photo's flag succeeds.
FlagSaveDone(o) ==
    /\ ops[o].op = "setPhotosFlagged" /\ ops[o].pc = "save"
    /\ flagColumn' = [flagColumn EXCEPT ![ops[o].photos[ops[o].idx].id] = ops[o].flag]
    /\ ops' = [ops EXCEPT ![o].pc = "each"]
    /\ UNCHANGED <<queueVars, trashedColumn, uiPhotos, changePhotos>>
    /\ UNCHANGED libVars

\* The save fails: Promise.each rejects, the then-handler never runs.
FlagSaveFailed(o) ==
    /\ ops[o].op = "setPhotosFlagged" /\ ops[o].pc = "save"
    /\ ops' = [ops EXCEPT ![o].pc = "failed"]
    /\ UNCHANGED <<queueVars, flagColumn, trashedColumn, uiPhotos, changePhotos>>
    /\ UNCHANGED libVars

\* Every save succeeded: the then-handler dispatches the changed photos.
FlagThen(o) ==
    /\ ops[o].op = "setPhotosFlagged" /\ ops[o].pc = "each"
    /\ ops[o].idx = Len(ops[o].photos)
    /\ DispatchChangePhotos(o, [i \in 1..Len(ops[o].photos) |->
                                   [ops[o].photos[i] EXCEPT !.flag = ops[o].flag]])
    /\ ops' = [ops EXCEPT ![o].pc = "done"]
    /\ UNCHANGED <<queueVars, flagColumn, trashedColumn>>
    /\ UNCHANGED libVars

\* movePhotosToTrash(photos): Promise.each is set up.
movePhotosToTrash(photoList) ==
    /\ NotCalled("movePhotosToTrash")
    /\ ops' = Append(ops, [op |-> "movePhotosToTrash",
                           photos |-> [i \in 1..Len(photoList) |-> PhotoOf(photoList[i])],
                           pc |-> "each", idx |-> 0, started |-> <<>>, saved |-> <<>>])
    /\ UNCHANGED <<queueVars, flagColumn, trashedColumn, uiPhotos, changePhotos>>
    /\ UNCHANGED libVars

\* The iterator of movePhotosToTrash starts the save of the next photo.
TrashEach(o) ==
    /\ ops[o].op = "movePhotosToTrash" /\ ops[o].pc = "each"
    /\ ops[o].idx < Len(ops[o].photos)
    /\ ops' = [ops EXCEPT ![o].pc = "save", ![o].idx = @ + 1,
                          ![o].started = Append(@, ops[o].photos[ops[o].idx + 1].id)]
    /\ UNCHANGED <<queueVars, flagColumn, trashedColumn, uiPhotos, changePhotos>>
    /\ UNCHANGED libVars

\* The save of the current photo's trashed column succeeds.
TrashSaveDone(o) ==
    /\ ops[o].op = "movePhotosToTrash" /\ ops[o].pc = "save"
    /\ trashedColumn' = [trashedColumn EXCEPT ![ops[o].photos[ops[o].idx].id] = TRUE]
    /\ ops' = [ops EXCEPT ![o].pc = "each",
                          ![o].saved = Append(@, ops[o].photos[ops[o].idx].id)]
    /\ UNCHANGED <<queueVars, flagColumn, uiPhotos, changePhotos>>
    /\ UNCHANGED libVars

\* The photos movePhotosToTrash broadcasts: each given photo, trashed.
TrashedPhotos(o) ==
    [i \in 1..Len(ops[o].photos) |-> [ops[o].photos[i] EXCEPT !.trashed = TRUE]]

\* A faulty chain that broadcasts although a save failed.
TrashSaveFailedDispatches(o) ==
    /\ ops[o].op = "movePhotosToTrash" /\ ops[o].pc = "save"
    /\ DispatchChangePhotos(o, TrashedPhotos(o))
    /\ ops' = [ops EXCEPT ![o].pc = "failed"]
    /\ UNCHANGED <<queueVars, flagColumn, trashedColumn>>
    /\ UNCHANGED libVars

\* The save fails: Promise.each rejects, the then-handler never runs.
TrashSaveFailed(o) ==
    /\ ops[o].op = "movePhotosToTrash" /\ ops[o].pc = "save"
    /\ ops' = [ops EXCEPT ![o].pc = "failed"]
    /\ UNCHANGED <<queueVars, flagColumn, trashedColumn, uiPhotos, changePhotos>>
    /\ UNCHANGED libVars

\* Every save succeeded: the then-handler dispatches the trashed photos.
TrashThen(o) ==
    /\ ops[o].op = "movePhotosToTrash" /\ ops[o].pc = "each"
    /\ ops[o].idx = Len(ops[o].photos)
    /\ DispatchChangePhotos(o, TrashedPhotos(o))
    /\ ops' = [ops EXCEPT ![o].pc = "done"]
    /\ UNCHANGED <<queueVars, flagColumn, trashedColumn>>
    /\ UNCHANGED libVars

(* One photo, flag updates and one edit, every outcome of every call. *)
Init == InitWith({EmptyWork, Flagged}, {EmptyWork})

Next ==
    \/ \E up \in {"flag", "unflag", "cropX"} : callUpdatePhotoWork("a.jpg", up)
    \/ Settle

Spec == Init /\ [][Next]_vars

(* One photo and one burst of calls: every persisted PhotoWork, every      *)
(* sequence of updates queued on one fetch.                                *)
InitThumbnail == InitWith(PhotoWorks, {EmptyWork})

NextThumbnail ==
    \/ \E up \in Updates :
          /\ cycles = <<>> \/ Lookup(pendingUpdates, "a.jpg") # 0
          /\ callUpdatePhotoWork("a.jpg", up)
    \/ Settle

SpecThumbnail == InitThumbnail /\ [][NextThumbnail]_vars

(* Two photos; the updates of one photo are never submitted for the other. *)
UpdatesOf(photoPath) ==
    IF photoPath = "a.jpg" THEN {"flag", "cropX"} ELSE {"unflag", "cropY"}

InitIsolation == InitWith({EmptyWork}, {Flagged})

NextIsolation ==
    \/ \E p \in Paths : \E up \in UpdatesOf(p) : callUpdatePhotoWork(p, up)
    \/ Settle

SpecIsolation == InitIsolation /\ [][NextIsolation]_vars

----------------------------------------------------------------------------
(* Properties of the update queue *)

CyclesOf(p) == {c \in CycleIds : cycles[c].photo = p}

FirstCycle(p) == CHOOSE c \in CyclesOf(p) : \A d \in CyclesOf(p) : c <= d

\* The PhotoWork w with the updates of seq applied, the first one first.
RECURSIVE InSubmissionOrder(_, _)
InSubmissionOrder(seq, w) ==
    IF Len(seq) = 0 THEN w
    ELSE ApplyUpdate(seq[Len(seq)],
                     InSubmissionOrder(SubSeq(seq, 1, Len(seq) - 1), w))

\* w1 and w2 agree on every field other than flagged.
SameButFlagged(w1, w2) == DeleteField(w1, "flagged") = DeleteField(w2, "flagged")

\* C1 (coalescing): while the first fetch for a path is pending, every call
\* made for the path so far is queued on it and no second fetch exists; once it
\* has resolved, the queued updates are exactly the calls made before, and the
\* resulting PhotoWork is the one fetched PhotoWork with all of them applied
\* in submission order.
C1_Coalescing ==
    \A p \in Paths :
        submitted[p] # <<>> =>
            LET c == FirstCycle(p)
                n == Len(cycles[c].updates)
            IN  /\ cycles[c].fetch = "pending" =>
                    /\ CyclesOf(p) = {c}
                    /\ cycles[c].updates = submitted[p]
                /\ cycles[c].fetch = "resolved" =>
                    /\ n >= 1
                    /\ cycles[c].updates = SubSeq(submitted[p], 1, n)
                    /\ cycles[c].fetched = persisted0[p]
                    /\ cycles[c].photoWork =
                           InSubmissionOrder(SubSeq(submitted[p], 1, n), persisted0[p])

\* Three calls coalesced into the first fetch, where the order decides the result.
C1_Witness ==
    \E c \in CycleIds :
        /\ c = FirstCycle(cycles[c].photo)
        /\ cycles[c].fetch = "resolved"
        /\ cycles[c].updates = <<"unflag", "cropX", "flag">>
        /\ cycles[c].photoWork = SetField(Flagged, "crop", "X")

\* C2 (single fetch): at most one fetchPhotoWork call per photo path is
\* outstanding.  (The registry is a map from path to PendingUpdate, so it never
\* holds two entries for one path.)
C2_SingleFetch ==
    \A p \in Paths :
        Cardinality({c \in CyclesOf(p) : cycles[c].fetch = "pending"}) <= 1

\* Every call has settled.
AllSettled ==
    \A c \in CycleIds :
        /\ cycles[c].fetch # "pending"
        /\ cycles[c].store # "pending"
        /\ cycles[c].thumb # "pending"

\* C3 (no lost updates): once every cycle has completed with no fetch and no
\* persistence failure, the persisted PhotoWork of each path is the initially
\* persisted one with every submitted update applied in submission order.
C3_NoLostUpdate ==
    ( /\ AllSettled
      /\ \A c \in CycleIds : cycles[c].fetch = "resolved" /\ cycles[c].store = "done" )
    => \A p \in Paths :
           persisted[p] = InSubmissionOrder(submitted[p], persisted0[p])

\* C4 (failures after the fetch leave the registry alone): a step in which
\* storePhotoWork or onThumnailChange fails does not change pendingUpdates.
C4_FailureKeepsRegistry ==
    [][ (\E c \in CycleIds :
            \/ cycles[c].store = "pending" /\ cycles'[c].store = "failed"
            \/ cycles[c].thumb = "pending" /\ cycles'[c].thumb = "failed")
        => pendingUpdates' = pendingUpdates ]_vars

\* C5 (failure clears state): a rejected fetch leaves no entry for its path,
\* and a call for a path without entry registers a new PendingUpdate that
\* holds only the call's own update and whose fetch is pending.
C5_FailureClearsState ==
    [][ /\ \A c \in CycleIds :
              (cycles[c].fetch = "pending" /\ cycles'[c].fetch = "rejected")
              => Lookup(pendingUpdates', cycles[c].photo) = 0
        /\ \A p \in Paths :
              (Lookup(pendingUpdates, p) = 0 /\ submitted'[p] # submitted[p])
              => LET d == Lookup(pendingUpdates', p)
                 IN  /\ d = Len(cycles) + 1
                     /\ Len(cycles') = d
                     /\ cycles'[d].photo = p
                     /\ cycles'[d].updates = <<submitted'[p][Len(submitted'[p])]>>
                     /\ cycles'[d].fetch = "pending" ]_vars

\* A fetch with two queued updates was rejected and a later call started anew.
C5_Witness ==
    \E c, d \in CycleIds :
        /\ c < d
        /\ cycles[c].photo = cycles[d].photo
        /\ cycles[c].fetch = "rejected"
        /\ Len(cycles[c].updates) = 2
        /\ cycles[d].fetch = "pending"
        /\ Lookup(pendingUpdates, cycles[d].photo) = d

\* C6 (rejected fetch applies nothing): a cycle whose fetch was rejected has
\* applied no update and issued no dispatch, no storePhotoWork and no
\* onThumnailChange; a path all of whose fetches were rejected has nothing
\* dispatched and its persisted PhotoWork untouched.
C6_RejectedAppliesNothing ==
    /\ \A c \in CycleIds :
           cycles[c].fetch = "rejected" =>
               /\ cycles[c].photoWork = NoWork
               /\ cycles[c].issued = <<>>
               /\ cycles[c].store = "none"
               /\ cycles[c].thumb = "none"
    /\ \A p \in Paths :
           (\A c \in CyclesOf(p) : cycles[c].fetch = "rejected") =>
               /\ uiPhotoWork[p] = NoWork
               /\ persisted[p] = persisted0[p]

\* A fetch with an edit and a flag update queued was rejected.
C6_Witness ==
    \E c \in CycleIds :
        /\ cycles[c].fetch = "rejected"
        /\ cycles[c].updates = <<"cropX", "flag">>

\* C7 (flag-only change suppresses the thumbnail update): when the PhotoWork
\* after a cycle's updates differs from the fetched one at most in flagged,
\* thumbnailNeedsUpdate is false and onThumnailChange is not called.
C7_FlagOnlyNoThumbnail ==
    \A c \in CycleIds :
        (cycles[c].fetch = "resolved"
         /\ SameButFlagged(cycles[c].photoWork, cycles[c].fetched)) =>
            /\ ~cycles[c].needsUpdate
            /\ cycles[c].thumb = "none"
            /\ \A i \in DOMAIN cycles[c].issued :
                   cycles[c].issued[i] # "onThumnailChange"

\* A cropped, flagged PhotoWork lost its flag and kept its crop.
C7_Witness ==
    \E c \in CycleIds :
        /\ cycles[c].fetch = "resolved"
        /\ cycles[c].fetched = SetField(Flagged, "crop", "X")
        /\ cycles[c].photoWork = SetField(EmptyWork, "crop", "X")
        /\ cycles[c].store = "done"

\* The PhotoWork after the first i updates of a cycle.
AfterUpdates(c, i) ==
    InSubmissionOrder(SubSeq(cycles[c].updates, 1, i), cycles[c].fetched)

\* C8 as stated (any changing update forces the thumbnail update): whenever
\* some update of a cycle changes a field other than flagged,
\* thumbnailNeedsUpdate is true and onThumnailChange is called.
C8_AnyChangingUpdate ==
    \A c \in CycleIds :
        (cycles[c].fetch = "resolved"
         /\ \E i \in 1..Len(cycles[c].updates) :
                ~SameButFlagged(AfterUpdates(c, i), AfterUpdates(c, i - 1))) =>
            /\ cycles[c].needsUpdate
            /\ cycles[c].thumb # "none"

\* C8 amended (a net change forces the thumbnail update): whenever the
\* PhotoWork after all of a cycle's updates differs from the fetched one in a
\* field other than flagged, thumbnailNeedsUpdate is true and onThumnailChange
\* is called.
C8_NetChangeForcesThumbnail ==
    \A c \in CycleIds :
        (cycles[c].fetch = "resolved"
         /\ ~SameButFlagged(cycles[c].photoWork, cycles[c].fetched)) =>
            /\ cycles[c].needsUpdate
            /\ cycles[c].thumb # "none"
            /\ cycles[c].issued[Len(cycles[c].issued)] = "onThumnailChange"

\* The crop changed its value and the flag was added in the same cycle.
C8_Witness ==
    \E c \in CycleIds :
        /\ cycles[c].fetch = "resolved"
        /\ cycles[c].fetched = SetField(EmptyWork, "crop", "X")
        /\ cycles[c].photoWork = SetField(Flagged, "crop", "Y")
        /\ cycles[c].thumb = "done"

\* C9 (dispatch, then persistence and thumbnail): a cycle whose fetch
\* succeeded dispatched its PhotoWork once and first, called storePhotoWork
\* once, and called onThumnailChange exactly if thumbnailNeedsUpdate; both
\* calls stay issued whatever the outcome of the other, and the PhotoWork the
\* store shows for the photo is one that a cycle dispatched.
C9_DispatchStoreThumbnail ==
    /\ \A c \in CycleIds :
           cycles[c].fetch = "resolved" =>
               /\ cycles[c].issued[1] = "dispatch"
               /\ cycles[c].issued[2] = "storePhotoWork"
               /\ Len(cycles[c].issued) = (IF cycles[c].needsUpdate THEN 3 ELSE 2)
               /\ cycles[c].needsUpdate => cycles[c].issued[3] = "onThumnailChange"
               /\ cycles[c].store # "none"
               /\ cycles[c].thumb # "none" <=> cycles[c].needsUpdate
    /\ \A p \in Paths :
           (\E c \in CyclesOf(p) : cycles[c].fetch = "resolved") =>
               \E c \in CyclesOf(p) :
                   /\ cycles[c].fetch = "resolved"
                   /\ uiPhotoWork[p] = cycles[c].photoWork

\* storePhotoWork failed while onThumnailChange was still running; the
\* dispatched PhotoWork is still in the store.
C9_Witness ==
    \E c \in CycleIds :
        /\ cycles[c].fetch = "resolved"
        /\ cycles[c].needsUpdate
        /\ cycles[c].store = "failed"
        /\ cycles[c].thumb = "pending"
        /\ uiPhotoWork[cycles[c].photo] = cycles[c].photoWork
        /\ persisted[cycles[c].photo] # cycles[c].photoWork

\* The elements of a sequence.
Range(seq) == {seq[i] : i \in DOMAIN seq}

\* C10 (isolation across keys): every update a cycle holds was submitted for
\* the cycle's own path, a path with calls has a fetch of its own, and a step
\* that is a call for, or settles a call of, one path changes neither the
\* registry entry nor any PendingUpdate nor the PhotoWork of another path.
C10_Isolation ==
    /\ [](\A p \in Paths :
            /\ submitted[p] # <<>> => CyclesOf(p) # {}
            /\ \A c \in CyclesOf(p) : Range(cycles[c].updates) \subseteq UpdatesOf(p))
    /\ [][ \A p \in Paths :
            ( \/ submitted'[p] # submitted[p]
              \/ \E c \in CyclesOf(p) : cycles'[c] # cycles[c] )
            => \A q \in Paths \ {p} :
                   /\ pendingUpdates'[q] = pendingUpdates[q]
                   /\ \A d \in CyclesOf(q) : cycles'[d] = cycles[d]
                   /\ submitted'[q] = submitted[q]
                   /\ persisted'[q] = persisted[q]
                   /\ uiPhotoWork'[q] = uiPhotoWork[q] ]_vars

\* Both paths had a fetch outstanding at once; one was rejected and left the
\* other's PendingUpdate, with two updates queued, registered.
C10_Witness ==
    \E c, d \in CycleIds :
        /\ cycles[c].photo = "a.jpg" /\ cycles[d].photo = "b.jpg"
        /\ c < d
        /\ cycles[c].fetch = "rejected"
        /\ cycles[d].fetch = "pending"
        /\ Len(cycles[d].updates) = 2
        /\ Lookup(pendingUpdates, "b.jpg") = d

----------------------------------------------------------------------------
(* Progress of the update queue *)

\* The fetch of cycle c settles, one way or the other.
FetchSettles(c) == c \in CycleIds /\ (FetchResolved(c) \/ FetchRejected(c))

InitLive == InitWith({EmptyWork}, {EmptyWork})

NextLive ==
    \/ callUpdatePhotoWork("a.jpg", "cropX")
    \/ Settle

\* Every fetchPhotoWork call eventually resolves or rejects; storePhotoWork and
\* onThumnailChange may stay pending for ever.
SpecLive ==
    InitLive /\ [][NextLive]_vars /\ \A c \in 1..MaxUpdates : WF_vars(FetchSettles(c))

\* C11 (self-clearing registry): every PendingUpdate that is created is
\* eventually no longer registered and its fetch has settled, so each of its
\* updates was applied (fetch resolved) or dropped (fetch rejected).
C11_SelfClearing ==
    \A c \in 1..MaxUpdates :
        [](c \in CycleIds =>
              <>(/\ c \in CycleIds
                 /\ cycles[c].fetch \in {"resolved", "rejected"}
                 /\ Lookup(pendingUpdates, cycles[c].photo) # c))

\* One batch of two updates was dropped, a later one applied, nothing is queued.
C11_Witness ==
    /\ Len(cycles) = 2
    /\ cycles[1].fetch = "rejected" /\ Len(cycles[1].updates) = 2
    /\ cycles[2].fetch = "resolved" /\ cycles[2].photoWork # NoWork
    /\ \A p \in Paths : Lookup(pendingUpdates, p) = 0

\* The updates of the first n cycles that belong to path p, in cycle order.
RECURSIVE QueuedFor(_, _)
QueuedFor(p, n) ==
    IF n = 0 THEN <<>>
    ELSE QueuedFor(p, n - 1)
             \o (IF cycles[n].photo = p THEN cycles[n].updates ELSE <<>>)

\* C15 (applied at most once): the batches of a path's cycles, one after the
\* other, are exactly the updates submitted for the path, so each update is in
\* one batch; a cycle whose fetch has settled never changes its batch, its
\* fetched PhotoWork or its result again; and a call made when no fetch of
\* the path is pending creates a new PendingUpdate with a pending fetch.
C15_AppliedOnce ==
    /\ [](\A p \in Paths : QueuedFor(p, Len(cycles)) = submitted[p])
    /\ [][ /\ \A c \in CycleIds :
                cycles[c].fetch # "pending" =>
                    /\ cycles'[c].updates = cycles[c].updates
                    /\ cycles'[c].fetch = cycles[c].fetch
                    /\ cycles'[c].fetched = cycles[c].fetched
                    /\ cycles'[c].photoWork = cycles[c].photoWork
           /\ \A p \in Paths :
                ( /\ submitted'[p] # submitted[p]
                  /\ \A c \in CyclesOf(p) : cycles[c].fetch # "pending" )
                => /\ Len(cycles') = Len(cycles) + 1
                   /\ cycles'[Len(cycles')].photo = p
                   /\ cycles'[Len(cycles')].fetch = "pending"
                   /\ Lookup(pendingUpdates', p) = Len(cycles') ]_vars

\* Two updates were applied by a resolved cycle; a third, submitted later,
\* waits in a new cycle.
C15_Witness ==
    \E c, d \in CycleIds :
        /\ c < d
        /\ cycles[c].photo = cycles[d].photo
        /\ cycles[c].fetch = "resolved"
        /\ Len(cycles[c].updates) = 2
        /\ cycles[d].fetch = "pending"
        /\ Len(cycles[d].updates) = 1

-----------------------------------------------------------------------------
(* Flag changes: one toggleFlag and one setPhotosFlagged on two photos, in
   either order and interleaved, the flag mutations running through the update
   queue with the outcomes of fetch and store. *)
InitFlag == InitWith({EmptyWork, Flagged}, {EmptyWork})

NextFlag ==
    \/ toggleFlag("a.jpg")
    \/ \E photoList \in PhotoLists : \E flag \in BOOLEAN : setPhotosFlagged(photoList, flag)
    \/ \E o \in OpIds : ToggleSaveDone(o)
    \/ \E o \in OpIds : ToggleFetchDone(o)
    \/ \E o \in OpIds : ToggleFailed(o)
    \/ \E o \in OpIds : FlagEach(o)
    \/ \E o \in OpIds : FlagSaveDone(o)
    \/ \E o \in OpIds : FlagSaveFailed(o)
    \/ \E o \in OpIds : FlagThen(o)
    \/ \E c \in CycleIds : FetchResolved(c)
    \/ \E c \in CycleIds : FetchRejected(c)
    \/ \E c \in CycleIds : StorePhotoWorkDone(c)
    \/ \E c \in CycleIds : StorePhotoWorkFailed(c)

SpecFlag == InitFlag /\ [][NextFlag]_vars

\* The mutations the flag operations handed to storeFlagged for photo p, in
\* the operations 1..n.
RECURSIVE StoredFor(_, _)
StoredFor(p, n) ==
    IF n = 0 THEN 0
    ELSE StoredFor(p, n - 1)
         + Cardinality({i \in 1..Len(ops[n].stored) : ops[n].stored[i].photo = p})

-----------------------------------------------------------------------------
(* Trash: one movePhotosToTrash on one or two photos while an edit of a photo
   runs through the update queue with every outcome. *)
NextTrash ==
    \/ \E photoList \in PhotoLists : movePhotosToTrash(photoList)
    \/ \E o \in OpIds : TrashEach(o)
    \/ \E o \in OpIds : TrashSaveDone(o)
    \/ \E o \in OpIds : TrashSaveFailed(o)
    \/ \E o \in OpIds : TrashThen(o)
    \/ callUpdatePhotoWork("a.jpg", "cropX")
    \/ Settle

SpecTrash == InitLive /\ [][NextTrash]_vars

\* The broadcasts operation o dispatched.
DispatchesBy(o) == {d \in 1..Len(changePhotos) : changePhotos[d].by = o}

\* C13: a step of movePhotosToTrash leaves the registry, the cycles (hence
\* the calls of fetchPhotoWork, storePhotoWork and onThumnailChange) and the
\* PhotoWork alone; its saves start in the order of the list, each after the
\* one before it succeeded; it dispatches at most once, only when every save
\* has succeeded, and the broadcast holds every given photo with trashed set.
C13_TrashOnlyTable ==
    /\ [](\A o \in OpIds :
            ops[o].op = "movePhotosToTrash" =>
              /\ ops[o].started = [i \in 1..Len(ops[o].started) |-> ops[o].photos[i].id]
              /\ Len(ops[o].started) <= Len(ops[o].photos)
              /\ ops[o].saved \in { ops[o].started,
                                    SubSeq(ops[o].started, 1, Len(ops[o].started) - 1) }
              /\ \A i \in 1..Len(ops[o].saved) : trashedColumn[ops[o].saved[i]]
              /\ Cardinality(DispatchesBy(o)) <= 1
              /\ \A d \in DispatchesBy(o) :
                    /\ Len(ops[o].saved) = Len(ops[o].photos)
                    /\ Len(changePhotos[d].photos) = Len(ops[o].photos)
                    /\ \A i \in 1..Len(ops[o].photos) :
                          /\ changePhotos[d].photos[i].id = ops[o].photos[i].id
                          /\ changePhotos[d].photos[i].trashed
                          /\ changePhotos[d].photos[i].flag = ops[o].photos[i].flag
              /\ ops[o].pc = "done" => DispatchesBy(o) # {})
    /\ [][(ops' # ops \/ trashedColumn' # trashedColumn \/ changePhotos' # changePhotos)
            => UNCHANGED <<queueVars, flagColumn>>]_vars

\* Both photos were saved and broadcast while a fetch of the queue was pending.
C13_Witness ==
    /\ Len(ops) = 1 /\ ops[1].op = "movePhotosToTrash" /\ ops[1].pc = "done"
    /\ Len(ops[1].photos) = 2
    /\ trashedColumn["a.jpg"] /\ trashedColumn["b.jpg"]
    /\ Len(changePhotos) = 1 /\ Len(changePhotos[1].photos) = 2
    /\ uiPhotos["a.jpg"].trashed /\ uiPhotos["b.jpg"].trashed
    /\ Len(cycles) = 1 /\ cycles[1].fetch = "pending"
    /\ Lookup(pendingUpdates, "a.jpg") = 1

-----------------------------------------------------------------------------
(* The directory walker (lib/walker.js) *)

\* fsReadDir(dirName): the entries that exist, each joined to dirName.
fsReadDir(dirName) == SelectSeq(Entries(dirName), LAMBDA path : fsKind[path] # "absent")

\* filter(a => a): false is dropped, a path or an array (even empty) is kept.
Truthy(a) == a.type # "boolean"

\* reduce((a, b) => a.concat(b), []): concat appends a path and splices an array.
RECURSIVE ConcatAll(_)
ConcatAll(values) ==
    IF values = <<>> THEN <<>>
    ELSE Head(values).list \o ConcatAll(Tail(values))

RECURSIVE walker(_, _)

\* map(fileName => fsStat(path).then(stat => ...)): a directory is walked, any
\* other path is returned itself.
MapEntries(paths, excluded) ==
    [i \in 1..Len(paths) |->
        IF fsKind[paths[i]] = "dir" THEN walker(paths[i], excluded)
        ELSE JsString(paths[i])]

walker(dirName, excluded) ==
    IF dirName \in excluded
    THEN JsFalse
    ELSE JsArray(ConcatAll(SelectSeq(MapEntries(fsReadDir(dirName), excluded), Truthy)))

\* The directory a path lies in.
Parent(path) ==
    IF path \in {"/r/d", "/r/x"} THEN "/r"
    ELSE IF path \in {"/r/d/e", "/r/d/y"} THEN "/r/d"
    ELSE "/"

\* Every tree over FsPaths with a directory /r, every exclusion list over its
\* directories and one of its files, every directory of the tree as the root.
InitWalker ==
    /\ InitQueue({EmptyWork}, {EmptyWork})
    /\ fsKind \in [FsPaths -> {"dir", "file", "absent"}]
    /\ fsKind["/r"] = "dir"
    /\ fsKind["/r/x"] # "dir" /\ fsKind["/r/d/y"] # "dir"
    /\ \A path \in FsPaths \ {"/r"} :
           fsKind[path] # "absent" => fsKind[Parent(path)] = "dir"
    /\ blacklist \in SUBSET {"/r", "/r/d", "/r/d/e", "/r/x"}
    /\ walkRoot \in {"/r", "/r/d"}
    /\ fsKind[walkRoot] = "dir"
    /\ walked = NotWalked
    /\ InitReducers
    /\ InitFetchPhotos

\* walker(root, blacklist) is called and its result awaited.
Walk ==
    /\ walked = NotWalked
    /\ walked' = walker(walkRoot, blacklist)
    /\ UNCHANGED <<queueVars, ctrlVars, fsKind, blacklist, walkRoot, reducerVars, fetchVars>>

NextWalker == Walk

SpecWalker == InitWalker /\ [][NextWalker]_vars

\* A directory the walk enters: the root, or a directory in an entered
\* directory, unless it is excluded.
RECURSIVE Entered(_)
Entered(dir) ==
    /\ dir \in FsPaths
    /\ fsKind[dir] = "dir"
    /\ dir \notin blacklist
    /\ \/ dir = walkRoot
       \/ dir # "/r" /\ Entered(Parent(dir))

\* The files reachable from the root without passing an excluded directory.
ReachableFiles ==
    {path \in FsPaths : fsKind[path] = "file" /\ Entered(Parent(path))}

\* C14: the walker returns a list, for every root (an excluded one too), that
\* holds exactly the files reachable from the root without passing through an
\* excluded directory, each once.
C14_WalkerListsFiles ==
    walked # NotWalked =>
        /\ walked.type = "array"
        /\ {walked.list[i] : i \in 1..Len(walked.list)} = ReachableFiles
        /\ Len(walked.list) = Cardinality(ReachableFiles)

\* What the walker does return when its root is not excluded.
WalkerListsFilesOfOpenRoot ==
    (walked # NotWalked /\ walkRoot \notin blacklist) =>
        /\ walked.type = "array"
        /\ {walked.list[i] : i \in 1..Len(walked.list)} = ReachableFiles
        /\ Len(walked.list) = Cardinality(ReachableFiles)

\* The walker was called on an excluded root.
WalkedExcludedRoot == walked # NotWalked /\ walkRoot \in blacklist

-----------------------------------------------------------------------------
(* The sections reducer (ui/state/reducers/data.ts) *)

\* obj with obj[key] = value set.
Put(obj, key, value) ==
    [k \in DOMAIN obj \cup {key} |-> IF k = key THEN value ELSE obj[k]]

\* A section as the sections query delivers it: photos not loaded.
Section(id, count) ==
    [id |-> id, count |-> count, loaded |-> FALSE, photoIds |-> <<>>,
     photoData |-> EmptyMap]

\* count-- on a count that may be null: null counts as 0.
Decrement(count) == IF count.null THEN Num(-1) ELSE Num(count.n - 1)

\* array.indexOf(item) followed by array.splice(index, 1) when found.
RECURSIVE SpliceFirst(_, _)
SpliceFirst(array, item) ==
    IF array = <<>> THEN <<>>
    ELSE IF Head(array) = item THEN Tail(array)
    ELSE <<Head(array)>> \o SpliceFirst(Tail(array), item)

\* FETCH_SECTIONS_SUCCESS: the loop over action.payload.sections.
RECURSIVE FoldSections(_, _)
FoldSections(acc, payloadSections) ==
    IF payloadSections = <<>> THEN acc
    ELSE LET section == Head(payloadSections)
         IN  FoldSections([photoCount |-> acc.photoCount + section.count,
                           ids |-> Append(acc.ids, section.id),
                           byId |-> Put(acc.byId, section.id, section)],
                          Tail(payloadSections))

\* FETCH_SECTION_PHOTOS: the loop over action.payload.photos.
RECURSIVE FoldPhotos(_, _)
FoldPhotos(acc, photos) ==
    IF photos = <<>> THEN acc
    ELSE LET photo == Head(photos)
         IN  FoldPhotos([photoIds |-> Append(acc.photoIds, photo.id),
                         photoData |-> Put(acc.photoData, photo.id, photo)],
                        Tail(photos))

\* FORGET_SECTION_PHOTOS: the loop over state.ids.
RECURSIVE ForgetSections(_, _, _, _)
ForgetSections(state, sectionIdsToForget, ids, newSectionById) ==
    IF ids = <<>> THEN newSectionById
    ELSE LET sectionId == Head(ids)
             prevSection == state.byId[sectionId]
         IN  ForgetSections(state, sectionIdsToForget, Tail(ids),
                 Put(newSectionById, sectionId,
                     IF sectionId \in sectionIdsToForget
                     THEN Section(prevSection.id, prevSection.count)
                     ELSE prevSection))

\* CHANGE_PHOTOS: the inner loop, over updatedPhotos, for one loaded section.
\* acc holds newSection (section while no photo of it was updated), whether
\* newSection exists, and the two running counts.
RECURSIVE ChangeSection(_, _, _)
ChangeSection(acc, updatedPhotos, update) ==
    IF updatedPhotos = <<>> THEN acc
    ELSE LET updatedPhoto == Head(updatedPhotos)
             removeUpdatedPhotos == update.trashed # "undefined"
             next ==
                IF updatedPhoto.id \notin DOMAIN acc.newSection.photoData
                THEN acc
                ELSE IF removeUpdatedPhotos
                THEN [newSection |->
                          [acc.newSection EXCEPT
                              !.photoIds = SpliceFirst(@, updatedPhoto.id),
                              !.count = @ - 1],
                      changed |-> TRUE,
                      totalPhotoCount |-> IF update.trashed = "true"
                                          THEN Decrement(acc.totalPhotoCount)
                                          ELSE acc.totalPhotoCount,
                      photoCount |-> acc.photoCount - 1]
                ELSE [acc EXCEPT !.changed = TRUE,
                                 !.newSection.photoData[updatedPhoto.id] = updatedPhoto]
         IN  ChangeSection(next, Tail(updatedPhotos), update)

\* CHANGE_PHOTOS: the outer loop, over state.ids.
RECURSIVE ChangeSections(_, _, _, _)
ChangeSections(state, action, ids, acc) ==
    IF ids = <<>> THEN acc
    ELSE LET sectionId == Head(ids)
             section == state.byId[sectionId]
             start == [newSection |-> section, changed |-> FALSE,
                       totalPhotoCount |-> acc.totalPhotoCount,
                       photoCount |-> acc.photoCount]
             done == IF section.loaded
                     THEN ChangeSection(start, action.photos, action.update)
                     ELSE start
             kept == ~done.changed \/ Len(done.newSection.photoIds) # 0
         IN  ChangeSections(state, action, Tail(ids),
                 [totalPhotoCount |-> done.totalPhotoCount,
                  photoCount |-> done.photoCount,
                  ids |-> IF kept THEN Append(acc.ids, sectionId) ELSE acc.ids,
                  byId |-> IF kept THEN Put(acc.byId, sectionId, done.newSection)
                           ELSE acc.byId])

\* A faulty FETCH_SECTIONS_REQUEST that drops the loaded sections.
FetchSectionsRequestClears(state) ==
    [state EXCEPT !.fetchState = FETCHING, !.ids = <<>>, !.byId = EmptyMap]

\* case FETCH_SECTIONS_REQUEST
FetchSectionsRequest(state) == [state EXCEPT !.fetchState = FETCHING]

\* const sections = (state, action) => ...
sectionsReducer(state, action) ==
    CASE action.type = "FETCH_TOTAL_PHOTO_COUNT" ->
            [state EXCEPT !.totalPhotoCount = Num(action.totalPhotoCount)]
      [] action.type = "FETCH_SECTIONS_REQUEST" -> FetchSectionsRequest(state)
      [] action.type = "FETCH_SECTIONS_SUCCESS" ->
            LET r == FoldSections([photoCount |-> 0, ids |-> <<>>, byId |-> EmptyMap],
                                  action.sections)
            IN  [state EXCEPT !.fetchState = IDLE, !.photoCount = r.photoCount,
                              !.ids = r.ids, !.byId = r.byId]
      [] action.type = "FETCH_SECTIONS_FAILURE" -> [state EXCEPT !.fetchState = FAILURE]
      [] action.type = "FETCH_SECTION_PHOTOS" ->
            IF action.sectionId \in DOMAIN state.byId
            THEN LET prevSection == state.byId[action.sectionId]
                     r == FoldPhotos([photoIds |-> <<>>, photoData |-> EmptyMap],
                                     action.photos)
                 IN  [state EXCEPT !.byId[action.sectionId] =
                         [prevSection EXCEPT !.count = Len(r.photoIds),
                                             !.loaded = TRUE,
                                             !.photoIds = r.photoIds,
                                             !.photoData = r.photoData]]
            ELSE state
      [] action.type = "FORGET_SECTION_PHOTOS" ->
            [state EXCEPT !.byId = ForgetSections(state, action.sectionIds,
                                                  state.ids, EmptyMap)]
      [] action.type = "CHANGE_PHOTOS" ->
            LET r == ChangeSections(state, action, state.ids,
                         [totalPhotoCount |-> state.totalPhotoCount,
                          photoCount |-> state.photoCount,
                          ids |-> <<>>, byId |-> EmptyMap])
            IN  [state EXCEPT !.totalPhotoCount = r.totalPhotoCount,
                              !.photoCount = r.photoCount,
                              !.ids = r.ids, !.byId = r.byId]
      [] action.type = "EMPTY_TRASH" ->
            [state EXCEPT !.photoCount = 0, !.ids = <<>>, !.byId = EmptyMap]
      [] OTHER -> state

\* The photos of the library and the sections they lie in.
Photo(id, flag, trashed) == [id |-> id, flag |-> flag, trashed |-> trashed]

PhotosOf(sectionId) ==
    IF sectionId = "s1"
    THEN <<Photo("p1", FALSE, FALSE), Photo("p2", FALSE, FALSE)>>
    ELSE <<Photo("p3", FALSE, FALSE)>>

\* The photo lists a CHANGE_PHOTOS action carries.
ChangedLists == { <<"p1">>, <<"p2">>, <<"p1", "p3">> }

\* The store folds an action into the sections state.
FoldSectionsAction(action) ==
    /\ sections' = sectionsReducer(sections, action)
    /\ sectionsAction' = action
    /\ UNCHANGED <<queueVars, ctrlVars, walkerVars, detailVars, fetchVars>>

FetchTotalPhotoCount ==
    FoldSectionsAction([type |-> "FETCH_TOTAL_PHOTO_COUNT", totalPhotoCount |-> 3])

FetchSectionsRequestAction == FoldSectionsAction([type |-> "FETCH_SECTIONS_REQUEST"])

FetchSectionsFailureAction == FoldSectionsAction([type |-> "FETCH_SECTIONS_FAILURE"])

FetchSectionsSuccess ==
    \E payload \in { <<Section("s1", 2)>>, <<Section("s1", 2), Section("s2", 1)>> } :
        FoldSectionsAction([type |-> "FETCH_SECTIONS_SUCCESS", sections |-> payload])

FetchSectionPhotos ==
    \E sectionId \in {"s1", "s2"} :
        FoldSectionsAction([type |-> "FETCH_SECTION_PHOTOS", sectionId |-> sectionId,
                            photos |-> PhotosOf(sectionId)])

ForgetSectionPhotos ==
    \E sectionIds \in {{"s1"}, {"s1", "s2"}} :
        FoldSectionsAction([type |-> "FORGET_SECTION_PHOTOS", sectionIds |-> sectionIds])

\* CHANGE_PHOTOS is folded while the counts shown are not negative.
ChangePhotos ==
    /\ sections.photoCount >= 0
    /\ sections.totalPhotoCount.null \/ sections.totalPhotoCount.n >= 0
    /\ \E list \in ChangedLists : \E trashed \in {"undefined", "true", "false"} :
          FoldSectionsAction(
              [type |-> "CHANGE_PHOTOS",
               photos |-> [i \in 1..Len(list) |->
                              Photo(list[i], trashed = "undefined", trashed = "true")],
               update |-> [trashed |-> trashed]])

EmptyTrash == FoldSectionsAction([type |-> "EMPTY_TRASH"])

InitSections == InitWith({EmptyWork}, {EmptyWork})

NextSections ==
    \/ FetchTotalPhotoCount
    \/ FetchSectionsRequestAction
    \/ FetchSectionsFailureAction
    \/ FetchSectionsSuccess
    \/ FetchSectionPhotos
    \/ ForgetSectionPhotos
    \/ ChangePhotos
    \/ EmptyTrash

SpecSections == InitSections /\ [][NextSections]_vars

\* C17: FETCH_SECTIONS_REQUEST and FETCH_SECTIONS_FAILURE set fetchState to
\* FETCHING and FAILURE and leave ids, byId, photoCount and totalPhotoCount as
\* they were.
C17_FetchStateOnly ==
    [][sectionsAction'.type \in {"FETCH_SECTIONS_REQUEST", "FETCH_SECTIONS_FAILURE"} =>
          /\ sections'.fetchState = IF sectionsAction'.type = "FETCH_SECTIONS_REQUEST"
                                    THEN FETCHING ELSE FAILURE
          /\ sections'.ids = sections.ids
          /\ sections'.byId = sections.byId
          /\ sections'.photoCount = sections.photoCount
          /\ sections'.totalPhotoCount = sections.totalPhotoCount]_vars

\* A load was requested while the photos of a section were shown.
C17_Witness ==
    /\ sectionsAction.type = "FETCH_SECTIONS_REQUEST"
    /\ sections.fetchState = FETCHING
    /\ Len(sections.ids) = 2
    /\ sections.byId["s1"].loaded /\ Len(sections.byId["s1"].photoIds) = 2
    /\ sections.photoCount = 3
    /\ sections.totalPhotoCount = Num(3)

\* The ids of the photos an action updates.
UpdatedIds(action) == {action.photos[i].id : i \in 1..Len(action.photos)}

\* The photoIds of a section without the updated photos.
Remaining(section, updated) ==
    SelectSeq(section.photoIds, LAMBDA id : id \notin updated)

\* The number of updated photos that are among the photoIds of a section.
RemovedFrom(section, updated) ==
    Len(section.photoIds) - Len(Remaining(section, updated))

\* The updated photos removed from the sections ids[1..n] of a state.
RECURSIVE RemovedUpTo(_, _, _)
RemovedUpTo(state, updated, n) ==
    IF n = 0 THEN 0
    ELSE RemovedUpTo(state, updated, n - 1)
         + RemovedFrom(state.byId[state.ids[n]], updated)

\* C16: a CHANGE_PHOTOS whose update defines trashed removes the updated
\* photos from the photoIds of every section, lowers the section's count and
\* photoCount by the number removed (totalPhotoCount too when trashed is
\* true), drops the sections whose photoIds became empty, and keeps every
\* section holding none of the updated photos as it was.
C16_TrashedRemovesPhotos ==
    [][(/\ sectionsAction'.type = "CHANGE_PHOTOS"
        /\ sectionsAction'.update.trashed # "undefined")
       => LET updated == UpdatedIds(sectionsAction')
              removed == RemovedUpTo(sections, updated, Len(sections.ids))
              Emptied(id) ==
                  /\ RemovedFrom(sections.byId[id], updated) > 0
                  /\ Remaining(sections.byId[id], updated) = <<>>
          IN  /\ sections'.ids = SelectSeq(sections.ids, LAMBDA id : ~Emptied(id))
              /\ DOMAIN sections'.byId = {id \in DOMAIN sections.byId : ~Emptied(id)}
              /\ \A id \in DOMAIN sections'.byId :
                    IF RemovedFrom(sections.byId[id], updated) = 0
                    THEN sections'.byId[id] = sections.byId[id]
                    ELSE /\ sections'.byId[id].photoIds
                              = Remaining(sections.byId[id], updated)
                         /\ sections'.byId[id].count
                              = sections.byId[id].count
                                  - RemovedFrom(sections.byId[id], updated)
              /\ sections'.photoCount = sections.photoCount - removed
              /\ IF sectionsAction'.update.trashed = "true" /\ removed > 0
                 THEN sections'.totalPhotoCount
                        = Num((IF sections.totalPhotoCount.null THEN 0
                               ELSE sections.totalPhotoCount.n) - removed)
                 ELSE sections'.totalPhotoCount = sections.totalPhotoCount]_vars

\* No entry of photoData is left behind for a photo that is not in photoIds.
NoStalePhotoData(state) ==
    \A id \in DOMAIN state.byId :
        DOMAIN state.byId[id].photoData
            = {state.byId[id].photoIds[i] : i \in 1..Len(state.byId[id].photoIds)}

\* What the reducer does do: C16's effect whenever no photoData is stale.
TrashedRemovesPhotosUnlessStale ==
    [][(/\ sectionsAction'.type = "CHANGE_PHOTOS"
        /\ sectionsAction'.update.trashed # "undefined"
        /\ NoStalePhotoData(sections))
       => LET updated == UpdatedIds(sectionsAction')
              removed == RemovedUpTo(sections, updated, Len(sections.ids))
          IN  /\ sections'.photoCount = sections.photoCount - removed
              /\ \A id \in DOMAIN sections'.byId :
                    /\ sections'.byId[id].photoIds = Remaining(sections.byId[id], updated)
                    /\ sections'.byId[id].count
                          = sections.byId[id].count
                              - RemovedFrom(sections.byId[id], updated)]_vars

\* C19: every section whose photos are loaded has count equal to the length
\* of its photoIds, and ids lists exactly the keys of byId.
C19_CountsAndIds ==
    /\ \A id \in DOMAIN sections.byId :
          sections.byId[id].loaded =>
              sections.byId[id].count = Len(sections.byId[id].photoIds)
    /\ {sections.ids[i] : i \in 1..Len(sections.ids)} = DOMAIN sections.byId
    /\ \A i, j \in 1..Len(sections.ids) : sections.ids[i] = sections.ids[j] => i = j

-----------------------------------------------------------------------------
(* The detail reducer *)

\* The result of a reducer call: the state it returns, or a TypeError.
Returns(state) == [error |-> FALSE, state |-> state]

Throws == [error |-> TRUE, state |-> DetailNull]

\* { ...state }: the own fields of state; none when state is null.
SpreadState(state) ==
    IF state.isNull THEN [DetailNull EXCEPT !.isNull = FALSE] ELSE state

\* { ...state.currentPhoto }: none when currentPhoto is undefined.
SpreadCurrentPhoto(state) ==
    IF state.hasCurrentPhoto THEN state.currentPhoto ELSE DetailNull.currentPhoto

\* case OPEN_DIFF / CLOSE_DIFF
SetShowDiff(state, showDiff) ==
    Returns([SpreadState(state) EXCEPT !.showDiff = showDiff])

\* case CHANGE_PHOTOWORK
ChangePhotoWork(state, action) ==
    IF state.isNull THEN Returns(state)
    ELSE IF ~state.hasCurrentPhoto THEN Throws
    ELSE IF state.currentPhoto.hasIds /\ state.currentPhoto.photoId = action.photoId
    THEN Returns([state EXCEPT !.currentPhoto.photoWork = action.photoWork])
    ELSE Returns(state)

\* export const detail = (state, action) => ...
detailReducer(state, action) ==
    CASE action.type = "SET_DETAIL_PHOTO_REQUEST" ->
            Returns([isNull |-> FALSE, showDiff |-> FALSE, hasCurrentPhoto |-> TRUE,
                     currentPhoto |-> [hasIds |-> TRUE, fetchState |-> FETCHING,
                                       sectionId |-> action.sectionId,
                                       photoIndex |-> action.photoIndex,
                                       photoId |-> action.photoId,
                                       photoDetail |-> NullDetail,
                                       photoWork |-> NoWork]])
      [] action.type = "SET_DETAIL_PHOTO_SUCCESS" ->
            IF state.isNull THEN Throws
            ELSE Returns([state EXCEPT
                     !.hasCurrentPhoto = TRUE,
                     !.currentPhoto = [SpreadCurrentPhoto(state) EXCEPT
                                          !.fetchState = IDLE,
                                          !.photoDetail = action.photoDetail,
                                          !.photoWork = action.photoWork]])
      [] action.type = "SET_DETAIL_PHOTO_FAILURE" ->
            IF state.isNull THEN Throws
            ELSE Returns([state EXCEPT
                     !.hasCurrentPhoto = TRUE,
                     !.currentPhoto = [SpreadCurrentPhoto(state) EXCEPT
                                          !.fetchState = FAILURE]])
      [] action.type = "SET_PHOTO_TAGS" ->
            IF state.isNull THEN Returns(state)
            ELSE IF ~state.hasCurrentPhoto THEN Throws
            ELSE IF /\ state.currentPhoto.hasIds
                    /\ state.currentPhoto.photoId = action.photoId
                    /\ state.currentPhoto.photoDetail.is = "loaded"
            THEN Returns([state EXCEPT !.currentPhoto.photoDetail.tags = action.tags])
            ELSE Returns(state)
      [] action.type = "CHANGE_PHOTOWORK" -> ChangePhotoWork(state, action)
      [] action.type \in {"FETCH_SECTIONS_SUCCESS", "FETCH_SECTIONS_FAILURE",
                          "CLOSE_DETAIL"} -> Returns(DetailNull)
      [] action.type = "CHANGE_PHOTOS" ->
            IF ~state.isNull /\ action.update.trashed # "undefined"
            THEN Returns(DetailNull)
            ELSE Returns(state)
      [] action.type = "EMPTY_TRASH" ->
            IF state.isNull THEN Returns(state)
            ELSE IF ~state.hasCurrentPhoto THEN Throws
            ELSE IF /\ state.currentPhoto.hasIds
                    /\ \E i \in 1..Len(action.trashedPhotoIds) :
                           action.trashedPhotoIds[i] = state.currentPhoto.photoId
            THEN Returns(DetailNull)
            ELSE Returns(state)
      [] action.type = "OPEN_DIFF" -> SetShowDiff(state, TRUE)
      [] action.type = "CLOSE_DIFF" -> SetShowDiff(state, FALSE)
      [] OTHER -> Returns(state)

\* The store folds an action into the detail state; when the reducer throws,
\* dispatch throws and the state stays.
FoldDetailAction(action) ==
    /\ LET result == detailReducer(detail, action)
       IN  /\ detailError' = result.error
           /\ detail' = IF result.error THEN detail ELSE result.state
    /\ detailAction' = action
    /\ UNCHANGED <<queueVars, ctrlVars, walkerVars, sectionsVars, fetchVars>>

SetDetailPhotoRequest ==
    \E index \in {0, 1} :
        FoldDetailAction([type |-> "SET_DETAIL_PHOTO_REQUEST", sectionId |-> "s1",
                          photoIndex |-> index,
                          photoId |-> PhotosOf("s1")[index + 1].id])

SetDetailPhotoSuccess ==
    \E photoWork \in {EmptyWork, Flagged} :
        FoldDetailAction([type |-> "SET_DETAIL_PHOTO_SUCCESS",
                          photoDetail |-> [is |-> "loaded", tags |-> <<>>],
                          photoWork |-> photoWork])

SetDetailPhotoFailure == FoldDetailAction([type |-> "SET_DETAIL_PHOTO_FAILURE"])

SetPhotoTags ==
    \E photoId \in {"p1", "p2"} :
        FoldDetailAction([type |-> "SET_PHOTO_TAGS", photoId |-> photoId,
                          tags |-> <<"tag">>])

ChangePhotoWorkAction ==
    \E photoId \in {"p1", "p2"} : \E photoWork \in {EmptyWork, Flagged} :
        FoldDetailAction([type |-> "CHANGE_PHOTOWORK", photoId |-> photoId,
                          photoWork |-> photoWork])

CloseDetail ==
    \E type \in {"FETCH_SECTIONS_SUCCESS", "FETCH_SECTIONS_FAILURE", "CLOSE_DETAIL"} :
        FoldDetailAction([type |-> type])

DetailChangePhotos ==
    \E trashed \in {"undefined", "true"} :
        FoldDetailAction([type |-> "CHANGE_PHOTOS", update |-> [trashed |-> trashed]])

DetailEmptyTrash ==
    FoldDetailAction([type |-> "EMPTY_TRASH", trashedPhotoIds |-> <<"p1">>])

OpenDiff == FoldDetailAction([type |-> "OPEN_DIFF"])

CloseDiff == FoldDetailAction([type |-> "CLOSE_DIFF"])

InitDetail == InitWith({EmptyWork}, {EmptyWork})

NextDetail ==
    \/ SetDetailPhotoRequest
    \/ SetDetailPhotoSuccess
    \/ SetDetailPhotoFailure
    \/ SetPhotoTags
    \/ ChangePhotoWorkAction
    \/ CloseDetail
    \/ DetailChangePhotos
    \/ DetailEmptyTrash
    \/ OpenDiff
    \/ CloseDiff

SpecDetail == InitDetail /\ [][NextDetail]_vars

\* A detail photo is open: the state has a currentPhoto with its ids.
DetailOpen(state) ==
    ~state.isNull /\ state.hasCurrentPhoto /\ state.currentPhoto.hasIds

\* C18: CHANGE_PHOTOWORK replaces currentPhoto.photoWork by the dispatched
\* PhotoWork, and nothing else, exactly when a detail photo is open and its
\* photoId is the action's; otherwise it returns the state unchanged.
C18_ChangePhotoWork ==
    [][detailAction'.type = "CHANGE_PHOTOWORK" =>
          /\ ~detailError'
          /\ detail' = IF /\ DetailOpen(detail)
                          /\ detail.currentPhoto.photoId = detailAction'.photoId
                       THEN [detail EXCEPT
                                !.currentPhoto.photoWork = detailAction'.photoWork]
                       ELSE detail]_vars

\* What the reducer does do: C18's effect on null and on states with a
\* currentPhoto.
ChangePhotoWorkWithCurrentPhoto ==
    [][(detailAction'.type = "CHANGE_PHOTOWORK"
          /\ (detail.isNull \/ detail.hasCurrentPhoto)) =>
          /\ ~detailError'
          /\ detail' = IF /\ DetailOpen(detail)
                          /\ detail.currentPhoto.photoId = detailAction'.photoId
                       THEN [detail EXCEPT
                                !.currentPhoto.photoWork = detailAction'.photoWork]
                       ELSE detail]_vars

\* C20: no action makes the detail reducer throw, and the state is null or a
\* record with showDiff and a currentPhoto holding fetchState, sectionId,
\* photoIndex and photoId.
C20_DetailNeverThrows ==
    /\ ~detailError
    /\ detail.isNull \/ DetailOpen(detail)

-----------------------------------------------------------------------------
(* The flag column against the flagged marker (SpecFlag) *)

\* Every flag operation has run to its end: dispatched, or stopped by a failure.
OpsSettled == \A o \in OpIds : ops[o].pc \in {"done", "failed"}

\* C22: once every toggleFlag and setPhotosFlagged call and every update cycle
\* they started has settled, flagged is present in a photo's persisted
\* PhotoWork exactly when the photo's flag column is true.
C22_FlagAgrees ==
    (ops # <<>> /\ OpsSettled /\ AllSettled) =>
        \A p \in Paths : ("flagged" \in DOMAIN persisted[p]) = flagColumn[p]

\* The same with no failure at all: every save, fetch and store succeeded.
FlagAgreesWhenNothingFailed ==
    ( /\ ops # <<>>
      /\ \A o \in OpIds : ops[o].pc = "done"
      /\ \A c \in CycleIds : cycles[c].fetch = "resolved" /\ cycles[c].store = "done" )
    => \A p \in Paths : ("flagged" \in DOMAIN persisted[p]) = flagColumn[p]

-----------------------------------------------------------------------------
(* Fetching the photos of the library view *)

\* The fetches one behaviour starts.
MaxFetches == 2

FetchIds == 1..Len(fetches)

\* The main filters: a tag (one query, through the tag) or a date (a count
\* query and a photos query).
MainFilters == {"tag", "date"}

\* store.dispatch(fetchPhotosAction.request / success / failure) of fetch f.
DispatchFetchPhotos(type, f) == Append(fetchLog, [type |-> type, fetch |-> f])

\* internalFetchPhotos(newFilter), the store holding a filter of type
\* currentFilter: the request is dispatched and the queries are started.
internalFetchPhotos(newFilter, currentFilter) ==
    /\ Len(fetches) < MaxFetches
    /\ LET mainFilter == IF newFilter # "null" THEN newFilter ELSE currentFilter
       IN  fetches' = Append(fetches,
               [newFilter |-> newFilter,
                tag |-> IF mainFilter = "tag" THEN "pending" ELSE "none",
                count |-> IF mainFilter = "tag" THEN "none" ELSE "pending",
                photos |-> IF mainFilter = "tag" THEN "none" ELSE "pending"])
    /\ fetchLog' = DispatchFetchPhotos("request", Len(fetches) + 1)
    /\ UNCHANGED <<queueVars, ctrlVars, walkerVars, reducerVars>>

\* fetchPhotos()
fetchPhotos == \E currentFilter \in MainFilters : internalFetchPhotos("null", currentFilter)

\* setPhotosFilter(newFilter)
setPhotosFilter == \E newFilter \in MainFilters : internalFetchPhotos(newFilter, newFilter)

\* The fetch of the tag with its photos resolves.
TagFetchDone(f) ==
    /\ fetches[f].tag = "pending"
    /\ fetches' = [fetches EXCEPT ![f].tag = "done"]
    /\ fetchLog' = DispatchFetchPhotos("success", f)
    /\ UNCHANGED <<queueVars, ctrlVars, walkerVars, reducerVars>>

\* The fetch of the tag rejects.
TagFetchFailed(f) ==
    /\ fetches[f].tag = "pending"
    /\ fetches' = [fetches EXCEPT ![f].tag = "failed"]
    /\ fetchLog' = DispatchFetchPhotos("failure", f)
    /\ UNCHANGED <<queueVars, ctrlVars, walkerVars, reducerVars>>

\* A query of Promise.all([ countForge, photosForge ]) resolves: the
\* then-handler runs once both have.
QueryDone(f, query) ==
    /\ query \in {"count", "photos"}
    /\ fetches[f][query] = "pending"
    /\ fetches' = [fetches EXCEPT ![f][query] = "done"]
    /\ fetchLog' = IF \A q \in {"count", "photos"} : fetches'[f][q] = "done"
                   THEN DispatchFetchPhotos("success", f)
                   ELSE fetchLog
    /\ UNCHANGED <<queueVars, ctrlVars, walkerVars, reducerVars>>

\* A query rejects: Promise.all rejects with the first rejection only.
QueryFailed(f, query) ==
    /\ query \in {"count", "photos"}
    /\ fetches[f][query] = "pending"
    /\ fetches' = [fetches EXCEPT ![f][query] = "failed"]
    /\ fetchLog' = IF \A q \in {"count", "photos"} : fetches[f][q] # "failed"
                   THEN DispatchFetchPhotos("failure", f)
                   ELSE fetchLog
    /\ UNCHANGED <<queueVars, ctrlVars, walkerVars, reducerVars>>

InitFetch == InitWith({EmptyWork}, {EmptyWork})

NextFetch ==
    \/ fetchPhotos
    \/ setPhotosFilter
    \/ \E f \in FetchIds : TagFetchDone(f)
    \/ \E f \in FetchIds : TagFetchFailed(f)
    \/ \E f \in FetchIds : \E query \in {"count", "photos"} : QueryDone(f, query)
    \/ \E f \in FetchIds : \E query \in {"count", "photos"} : QueryFailed(f, query)

SpecFetch == InitFetch /\ [][NextFetch]_vars

\* The places of the log where fetch f dispatched an action of one of the types.
LogOf(f, types) ==
    {i \in 1..Len(fetchLog) : fetchLog[i].fetch = f /\ fetchLog[i].type \in types}

\* The queries of fetch f have settled: the tag fetch, or both queries, or one
\* query with a rejection.
QueriesSettled(f) ==
    \/ fetches[f].tag \in {"done", "failed"}
    \/ fetches[f].count = "done" /\ fetches[f].photos = "done"
    \/ fetches[f].count = "failed"
    \/ fetches[f].photos = "failed"

\* Each fetch dispatches one request and then, once its queries settle,
\* exactly one success or failure.
OneRequestOneResult ==
    \A f \in FetchIds :
        /\ Cardinality(LogOf(f, {"request"})) = 1
        /\ Cardinality(LogOf(f, {"success", "failure"}))
              = IF QueriesSettled(f) THEN 1 ELSE 0
        /\ \A i \in LogOf(f, {"request"}) : \A j \in LogOf(f, {"success", "failure"}) : i < j

\* C21: each fetch dispatches one request followed by exactly one success or
\* failure, and once every started fetch has dispatched its result, the last
\* success or failure in the log is that of the fetch started last.
C21_LastFetchWins ==
    /\ OneRequestOneResult
    /\ (fetches # <<>> /\ \A f \in FetchIds : QueriesSettled(f)) =>
          fetchLog[Len(fetchLog)].fetch = Len(fetches)

====
